---- MODULE Spec2Model ----
(***************************************************************************)
(* Model of src/nazca_example.py: a linear script that downloads an        *)
(* earthquake catalog, converts it to rows, filters a volcano table by     *)
(* region, draws the map layers and saves the image.                       *)
(*                                                                         *)
(* Units.  Longitudes and latitudes are integers in hundredths of a        *)
(* degree, depths are integers in metres, magnitudes are integers in       *)
(* tenths.  A Python value that may be None is a sequence: << >> is None   *)
(* and <<v>> is the value v.  The same encoding is used for the result of  *)
(* an expression that may raise: << >> means an exception was raised.      *)
(***************************************************************************)
EXTENDS Integers, Sequences, FiniteSets, TLC

VARIABLES
    iris,        \* what the IRIS service answers to this program's request
    sample,      \* the "world_volcanoes" sample table
    now,         \* wall clock at process start (never read by the script)
    run,         \* number of the current execution of the script
    prev,        \* trace of the previous execution (<< >> in the first one)
    pc,          \* the statement about to be executed
    catalog,     \* catalog
    idx,         \* number of events the for loop has consumed
    data,        \* data
    eq_df,       \* eq_df
    volcano_df,  \* volcano_df
    log          \* trace of the statements executed, with their data arguments

vars == <<iris, sample, now, run, prev, pc, catalog, idx, data, eq_df,
          volcano_df, log>>

world == <<iris, sample>>

-----------------------------------------------------------------------------
(* Bounds of the model *)

MaxEvents == 3

MaxVolcanoes == 3

-----------------------------------------------------------------------------
(* Settings, lines 13-33 *)

REGION == <<-11000, -7000, -6000, 1000>>

UTCDateTime(d) == [date |-> d, tod |-> "00:00:00"]

START_TIME == UTCDateTime("2010-01-01")

END_TIME == UTCDateTime("2025-01-01")

MIN_MAGNITUDE == 55

FAMOUS_EQ ==
    [lon |-> -7305, lat |-> -3829, depth |-> 33, mag |-> 95,
     label |-> "1960 Valdivia EQ (M9.5)"]

OUTPUT_FILE == "nazca_plate_map.png"

-----------------------------------------------------------------------------
(* Inputs: events the service may return, volcanoes the sample may hold *)

SeqsUpTo(S, n) == UNION {[1..k -> S] : k \in 0..n}

OGood1 ==
    [longitude |-> -7167, latitude |-> -3157, depth |-> <<22400>>,
     time |-> <<[date |-> "2015-09-16", tod |-> "22:54:32"]>>]

OGood2 ==
    [longitude |-> -7994, latitude |-> 38, depth |-> <<35000>>,
     time |-> <<[date |-> "2016-04-16", tod |-> "23:58:36"]>>]

ONoDepth ==
    [longitude |-> -7500, latitude |-> -2000, depth |-> << >>,
     time |-> <<[date |-> "2012-03-25", tod |-> "22:37:06"]>>]

ONoTime ==
    [longitude |-> -7200, latitude |-> -3300, depth |-> <<10000>>,
     time |-> << >>]

M1 == [mag |-> 83]

M2 == [mag |-> 78]

EvPreferred ==
    [preferred_origin_id |-> 2, origins |-> <<ONoDepth, OGood2>>,
     preferred_magnitude_id |-> 2, magnitudes |-> <<M1, M2>>]

EvFirst ==
    [preferred_origin_id |-> 0, origins |-> <<OGood1, ONoTime>>,
     preferred_magnitude_id |-> 0, magnitudes |-> <<M1, M2>>]

EvNoOrigin ==
    [preferred_origin_id |-> 0, origins |-> << >>,
     preferred_magnitude_id |-> 1, magnitudes |-> <<M1>>]

EvNoMagnitude ==
    [preferred_origin_id |-> 1, origins |-> <<OGood1>>,
     preferred_magnitude_id |-> 0, magnitudes |-> << >>]

EvPrefNoDepth ==
    [preferred_origin_id |-> 2, origins |-> <<OGood1, ONoDepth>>,
     preferred_magnitude_id |-> 1, magnitudes |-> <<M2>>]

EvNoTime ==
    [preferred_origin_id |-> 0, origins |-> <<ONoTime>>,
     preferred_magnitude_id |-> 0, magnitudes |-> <<M2>>]

Events ==
    {EvPreferred, EvFirst, EvNoOrigin, EvNoMagnitude, EvPrefNoDepth, EvNoTime}

Volcano(lon, lat) == [longitude |-> lon, latitude |-> lat]

Volcanoes ==
    {Volcano(-9000, -2000),
     Volcano(-11000, -6000), Volcano(-7000, 1000),
     Volcano(-11001, -2000), Volcano(-6999, -2000),
     Volcano(-9000, -6001), Volcano(-9000, 1001)}

ServiceAnswers ==
    {[status |-> "ok", events |-> c] : c \in SeqsUpTo(Events, MaxEvents)}
    \cup {[status |-> s, events |-> << >>] : s \in {"client_error", "request_error"}}

Tables == SeqsUpTo(Volcanoes, MaxVolcanoes)

\* The catalog and the volcano table meet only in the trace of plotting
\* calls, so each is varied over its whole set against these values of the
\* other one.
ReferenceAnswers ==
    {[status |-> "ok", events |-> <<EvPreferred, EvNoOrigin>>],
     [status |-> "request_error", events |-> << >>]}

ReferenceTables ==
    {<< >>, <<Volcano(-11001, -2000), Volcano(-11000, -6000)>>}

-----------------------------------------------------------------------------
(* Trace entries: [op |-> statement, ...its data arguments] *)

EmptyFrame == [columns |-> {}, rows |-> << >>]

Init ==
    /\ iris \in ServiceAnswers
    /\ sample \in Tables
    /\ iris \in ReferenceAnswers \/ sample \in ReferenceTables
    /\ now = 0
    /\ run = 1
    /\ prev = << >>
    /\ pc = "download"
    /\ catalog = << >>
    /\ idx = 0
    /\ data = << >>
    /\ eq_df = EmptyFrame
    /\ volcano_df = << >>
    /\ log = << >>

-----------------------------------------------------------------------------
(* Python helpers *)

\* list[i] with Python's 0-based index
Item(list, i) == list[i + 1]

\* one column of a table given as a sequence of rows
Column(rows, f) == [i \in 1..Len(rows) |-> rows[i][f]]

\* pd.DataFrame(list of dicts): the columns are the keys of the dicts, so a
\* frame built from an empty list has no columns at all
RowKeys == {"lon", "lat", "depth", "mag", "time"}

DataFrame(d) == [columns |-> IF Len(d) = 0 THEN {} ELSE RowKeys, rows |-> d]

\* origin.depth / 1000: metres to kilometres, kept exact as whole
\* kilometres plus the remaining metres
DepthKm(d) == [km |-> d \div 1000, m |-> d % 1000]

\* time.strftime("%Y-%m-%d"): the date, the time of day is dropped
Strftime(t) == t.date

\* eq_df.mag * 0.05, in thousandths of a centimetre (mag is in tenths)
SymbolSize(mag) == mag * 5

-----------------------------------------------------------------------------
(* 2. download, lines 38-53 *)

ClientCall == [op |-> "Client"]

GetEventsCall ==
    [op |-> "get_events",
     starttime |-> START_TIME,
     endtime |-> END_TIME,
     minlatitude |-> Item(REGION, 2),
     maxlatitude |-> Item(REGION, 3),
     minlongitude |-> Item(REGION, 0),
     maxlongitude |-> Item(REGION, 1),
     minmagnitude |-> MIN_MAGNITUDE]

\* variant: no except clause, a failed download ends the run
Download_uncaught ==
    /\ pc = "download"
    /\ \/ /\ iris.status = "client_error"
          /\ log' = Append(log, ClientCall)
          /\ catalog' = catalog
          /\ pc' = "aborted"
       \/ /\ iris.status = "request_error"
          /\ log' = log \o <<ClientCall, GetEventsCall>>
          /\ catalog' = catalog
          /\ pc' = "aborted"
       \/ /\ iris.status = "ok"
          /\ log' = log \o <<ClientCall, GetEventsCall>>
          /\ catalog' = iris.events
          /\ pc' = "loop"
    /\ data' = << >>
    /\ idx' = 0
    /\ UNCHANGED <<world, now, run, prev, eq_df, volcano_df>>

Download ==
    /\ pc = "download"
    /\ \/ /\ iris.status = "client_error"
          /\ log' = Append(log, ClientCall)
          /\ catalog' = << >>
       \/ /\ iris.status = "request_error"
          /\ log' = log \o <<ClientCall, GetEventsCall>>
          /\ catalog' = << >>
       \/ /\ iris.status = "ok"
          /\ log' = log \o <<ClientCall, GetEventsCall>>
          /\ catalog' = iris.events
    /\ pc' = "loop"
    /\ data' = << >>
    /\ idx' = 0
    /\ UNCHANGED <<world, now, run, prev, eq_df, volcano_df>>

-----------------------------------------------------------------------------
(* 3. processing, lines 59-86 *)

\* variant: event.origins[0], the preferred origin is not consulted
EventOrigin_firstOnly(event) ==
    IF Len(event.origins) > 0 THEN <<Item(event.origins, 0)>> ELSE << >>

\* event.preferred_origin() or event.origins[0]
\* preferred_origin() is None when no preferred origin is set; an origin
\* object always carries a resource id and is therefore truthy, so "or"
\* falls through to origins[0] exactly when there is no preferred origin.
\* origins[0] raises IndexError on an empty list.
EventOrigin(event) ==
    IF event.preferred_origin_id # 0
    THEN <<event.origins[event.preferred_origin_id]>>
    ELSE IF Len(event.origins) > 0 THEN <<Item(event.origins, 0)>> ELSE << >>

\* event.preferred_magnitude() or event.magnitudes[0]
EventMagnitude(event) ==
    IF event.preferred_magnitude_id # 0
    THEN <<event.magnitudes[event.preferred_magnitude_id]>>
    ELSE IF Len(event.magnitudes) > 0 THEN <<Item(event.magnitudes, 0)>> ELSE << >>

\* the dict of lines 65-71; << >> when building it raises: None / 1000 is
\* a TypeError, None.strftime an AttributeError.  Longitude, latitude and
\* mag are copied without being operated on (the service returns them set).
EventRow(event) ==
    LET origin == EventOrigin(event)
        magnitude == EventMagnitude(event)
    IN  IF Len(origin) = 0 THEN << >>
        ELSE IF Len(magnitude) = 0 THEN << >>
        ELSE IF Len(origin[1].depth) = 0 THEN << >>
        ELSE IF Len(origin[1].time) = 0 THEN << >>
        ELSE <<[lon |-> origin[1].longitude,
                lat |-> origin[1].latitude,
                depth |-> DepthKm(origin[1].depth[1]),
                mag |-> magnitude[1].mag,
                time |-> Strftime(origin[1].time[1])]>>

\* variant: "break" in place of "continue"
ProcessEvent_break ==
    /\ pc = "loop"
    /\ idx < Len(catalog)
    /\ LET row == EventRow(catalog[idx + 1])
       IN  /\ data' = IF Len(row) = 0 THEN data ELSE Append(data, row[1])
           /\ idx' = IF Len(row) = 0 THEN Len(catalog) ELSE idx + 1
    /\ log' = Append(log, [op |-> "event"])
    /\ UNCHANGED <<world, now, run, prev, pc, catalog, eq_df, volcano_df>>

\* one iteration of "for event in catalog"
ProcessEvent ==
    /\ pc = "loop"
    /\ idx < Len(catalog)
    /\ LET row == EventRow(catalog[idx + 1])
       IN  data' = IF Len(row) = 0 THEN data ELSE Append(data, row[1])
    /\ idx' = idx + 1
    /\ log' = Append(log, [op |-> "event"])
    /\ UNCHANGED <<world, now, run, prev, pc, catalog, eq_df, volcano_df>>

\* the loop is exhausted; eq_df = pd.DataFrame(data)
MakeDataFrame ==
    /\ pc = "loop"
    /\ idx = Len(catalog)
    /\ eq_df' = DataFrame(data)
    /\ log' = Append(log, [op |-> "DataFrame"])
    /\ pc' = "load_volcanoes"
    /\ UNCHANGED <<world, now, run, prev, catalog, idx, data, volcano_df>>

LoadVolcanoes ==
    /\ pc = "load_volcanoes"
    /\ volcano_df' = sample
    /\ log' = Append(log, [op |-> "load_sample_data"])
    /\ pc' = "filter"
    /\ UNCHANGED <<world, now, run, prev, catalog, idx, data, eq_df>>

\* variant: the western bound is exclusive
RegionMask_exclusive(df) ==
    [i \in 1..Len(df) |->
        /\ df[i].longitude > Item(REGION, 0)
        /\ df[i].longitude <= Item(REGION, 1)
        /\ df[i].latitude >= Item(REGION, 2)
        /\ df[i].latitude <= Item(REGION, 3)]

\* the boolean mask of lines 83-84, one entry per row
RegionMask(df) ==
    [i \in 1..Len(df) |->
        /\ df[i].longitude >= Item(REGION, 0)
        /\ df[i].longitude <= Item(REGION, 1)
        /\ df[i].latitude >= Item(REGION, 2)
        /\ df[i].latitude <= Item(REGION, 3)]

\* df[mask]: the rows whose mask entry is True, in order
RECURSIVE BoolIndex(_, _)
BoolIndex(df, mask) ==
    IF Len(df) = 0 THEN << >>
    ELSE IF Head(mask)
         THEN <<Head(df)>> \o BoolIndex(Tail(df), Tail(mask))
         ELSE BoolIndex(Tail(df), Tail(mask))

FilterVolcanoes ==
    /\ pc = "filter"
    /\ volcano_df' = BoolIndex(volcano_df, RegionMask(volcano_df))
    /\ log' = Append(log, [op |-> "filter"])
    /\ pc' = "figure"
    /\ UNCHANGED <<world, now, run, prev, catalog, idx, data, eq_df>>

-----------------------------------------------------------------------------
(* 4. plotting, lines 92-177 *)

\* a statement that calls the plotting toolkit and changes no program data
Emit(at, call, next) ==
    /\ pc = at
    /\ log' = Append(log, call)
    /\ pc' = next
    /\ UNCHANGED <<world, now, run, prev, catalog, idx, data, eq_df, volcano_df>>

Figure == Emit("figure", [op |-> "Figure"], "makecpt")

MakeCpt == Emit("makecpt", [op |-> "makecpt"], "load_earth_relief")

LoadEarthReliefCall == [op |-> "load_earth_relief", region |-> REGION]

LoadEarthRelief == Emit("load_earth_relief", LoadEarthReliefCall, "grdimage")

GrdImage == Emit("grdimage", [op |-> "grdimage"], "coast")

Coast == Emit("coast", [op |-> "coast"], "basemap")

Basemap == Emit("basemap", [op |-> "basemap"], "plot_volcanoes")

PlotVolcanoes ==
    Emit("plot_volcanoes",
         [op |-> "plot_volcanoes",
          x |-> Column(volcano_df, "longitude"),
          y |-> Column(volcano_df, "latitude")],
         "plot_earthquakes")

\* eq_df.lon is an attribute lookup: it raises AttributeError when the frame
\* has no such column, before fig.plot is called; nothing catches it
PlotEarthquakes ==
    /\ pc = "plot_earthquakes"
    /\ IF "lon" \in eq_df.columns
       THEN /\ log' = Append(log,
                  [op |-> "plot_earthquakes",
                   x |-> Column(eq_df.rows, "lon"),
                   y |-> Column(eq_df.rows, "lat"),
                   size |-> [i \in 1..Len(eq_df.rows) |->
                                SymbolSize(eq_df.rows[i].mag)],
                   zvalue |-> Column(eq_df.rows, "depth")])
            /\ pc' = "plot_famous"
       ELSE /\ log' = log
            /\ pc' = "aborted"
    /\ UNCHANGED <<world, now, run, prev, catalog, idx, data, eq_df, volcano_df>>

PlotFamousCall ==
    [op |-> "plot_famous", x |-> FAMOUS_EQ.lon, y |-> FAMOUS_EQ.lat,
     label |-> FAMOUS_EQ.label]

PlotFamous == Emit("plot_famous", PlotFamousCall, "text")

TextCall ==
    [op |-> "text", x |-> FAMOUS_EQ.lon, y |-> FAMOUS_EQ.lat,
     text |-> FAMOUS_EQ.label]

Text == Emit("text", TextCall, "colorbar")

Colorbar == Emit("colorbar", [op |-> "colorbar"], "legend")

\* variant: the figure is shown without having been saved
Legend_thenShow == Emit("legend", [op |-> "legend"], "show")

Legend == Emit("legend", [op |-> "legend"], "savefig")

\* variant: the file name carries the time of the run
SaveFigCall_stamped ==
    [op |-> "savefig",
     fname |-> IF now = 0 THEN OUTPUT_FILE ELSE "nazca_plate_map_1.png"]

SaveFigCall == [op |-> "savefig", fname |-> OUTPUT_FILE]

\* variant: the figure is saved before the legend is drawn
SaveFig_beforeLegend == Emit("legend", SaveFigCall, "show")

SaveFig == Emit("savefig", SaveFigCall, "show")

Show == Emit("show", [op |-> "show"], "done")

-----------------------------------------------------------------------------

Terminated == pc \in {"done", "aborted"}

Next ==
    \/ Download
    \/ ProcessEvent
    \/ MakeDataFrame
    \/ LoadVolcanoes
    \/ FilterVolcanoes
    \/ Figure
    \/ MakeCpt
    \/ LoadEarthRelief
    \/ GrdImage
    \/ Coast
    \/ Basemap
    \/ PlotVolcanoes
    \/ PlotEarthquakes
    \/ PlotFamous
    \/ Text
    \/ Colorbar
    \/ Legend
    \/ SaveFig
    \/ Show

Spec == Init /\ [][Next]_vars

\* the script is started again in the same world, later on the wall clock
Rerun ==
    /\ Terminated
    /\ run = 1
    /\ run' = run + 1
    /\ now' = now + 1
    /\ prev' = log
    /\ pc' = "download"
    /\ catalog' = << >>
    /\ idx' = 0
    /\ data' = << >>
    /\ eq_df' = EmptyFrame
    /\ volcano_df' = << >>
    /\ log' = << >>
    /\ UNCHANGED world

NextRerun == Next \/ Rerun

SpecRerun == Init /\ [][NextRerun]_vars

-----------------------------------------------------------------------------
(* Vocabulary of the properties *)

Ops == [i \in 1..Len(log) |-> log[i].op]

Positions(op) == {i \in 1..Len(log) : log[i].op = op}

Executed(op) == Positions(op) # {}

IsPrefix(s, t) == Len(s) <= Len(t) /\ s = SubSeq(t, 1, Len(s))

PlotOps ==
    {"Figure", "makecpt", "load_earth_relief", "grdimage", "coast", "basemap",
     "plot_volcanoes", "plot_earthquakes", "plot_famous", "text", "colorbar",
     "legend"}

\* the four stages, numbered in the order download, filter, plot, save
StageOf(op) ==
    IF op \in {"Client", "get_events"} THEN 1
    ELSE IF op \in {"event", "DataFrame", "load_sample_data", "filter"} THEN 2
    ELSE IF op \in PlotOps THEN 3
    ELSE 4

AfterLoop == pc \notin {"download", "loop"}

AfterFilter == pc \notin {"download", "loop", "load_volcanoes", "filter"}

\* the origin and the magnitude an event is read through: the preferred one
\* when set, otherwise the first listed one (none when nothing is listed)
UsableOrigins(ev) ==
    IF ev.preferred_origin_id # 0
    THEN {ev.origins[ev.preferred_origin_id]}
    ELSE {ev.origins[i] : i \in {j \in DOMAIN ev.origins : j = 1}}

UsableMagnitudes(ev) ==
    IF ev.preferred_magnitude_id # 0
    THEN {ev.magnitudes[ev.preferred_magnitude_id]}
    ELSE {ev.magnitudes[i] : i \in {j \in DOMAIN ev.magnitudes : j = 1}}

Complete(ev) ==
    /\ UsableMagnitudes(ev) # {}
    /\ \E o \in UsableOrigins(ev) : Len(o.depth) = 1 /\ Len(o.time) = 1

\* r is the row the event is claimed to yield
IsRowOf(r, ev) ==
    \E o \in UsableOrigins(ev), m \in UsableMagnitudes(ev) :
        /\ r.lon = o.longitude
        /\ r.lat = o.latitude
        /\ r.depth.km * 1000 + r.depth.m = o.depth[1]
        /\ r.depth.m \in 0..999
        /\ r.mag = m.mag
        /\ r.time = o.time[1].date

CompleteEvents(cat) == SelectSeq(cat, Complete)

\* data is one row per complete event of cat, in order
RowsMatch(rows, cat) ==
    /\ Len(rows) = Len(CompleteEvents(cat))
    /\ \A i \in 1..Len(rows) : IsRowOf(rows[i], CompleteEvents(cat)[i])

\* the palette and the layers of the map, in the order they are to be drawn
LayerOrder ==
    <<"makecpt", "grdimage", "coast", "basemap", "plot_volcanoes",
      "plot_earthquakes", "plot_famous", "text", "colorbar", "legend",
      "savefig", "show">>

Layers == {LayerOrder[i] : i \in 1..Len(LayerOrder)}

IsLayer(op) == op \in Layers

InsideRegion(v) ==
    /\ -11000 <= v.longitude /\ v.longitude <= -7000
    /\ -6000 <= v.latitude /\ v.latitude <= 1000

-----------------------------------------------------------------------------
(* C1: the stages run in the order download, filter, plot, save: the catalog
   request precedes every event conversion, the conversion and the volcano
   filter are finished before the first plotting call, the image is saved
   only after every plotting call, and no statement outside the conversion
   loop runs twice (the loop converts each event at most once). *)
C1_StageOrder ==
    /\ \A i, j \in 1..Len(log) : i < j => StageOf(log[i].op) <= StageOf(log[j].op)
    /\ \A j \in Positions("event") : \E i \in Positions("get_events") : i < j
    /\ \A j \in 1..Len(log) :
          log[j].op \in PlotOps =>
              /\ idx = Len(catalog)
              /\ \E i \in Positions("DataFrame") : i < j
              /\ \E i \in Positions("filter") : i < j
    /\ \A j \in Positions("savefig") :
          \A op \in PlotOps : \E i \in Positions(op) : i < j
    /\ \A op \in {log[i].op : i \in 1..Len(log)} \ {"event"} :
          Cardinality(Positions(op)) = 1
    /\ Cardinality(Positions("event")) = idx
    /\ idx <= Len(catalog)

C1_Witness ==
    /\ pc = "done"
    /\ Executed("savefig")
    /\ Cardinality(Positions("event")) = 2

(* C2: two executions in the same world (same catalog outcome, same volcano
   table) make the same calls with the same data arguments and write the
   same file, whatever the wall clock says. *)
C2_SameInputsSameCalls ==
    run = 2 =>
        /\ IsPrefix(log, prev)
        /\ Terminated => log = prev

C2_Witness ==
    /\ run = 2
    /\ now # 0
    /\ pc = "done"
    /\ \E i \in Positions("plot_earthquakes") : Len(log[i].x) = 2
    /\ log = prev

(* C3: whatever the catalog outcome, the run ends having written
   nazca_plate_map.png exactly once. *)
C3_AlwaysSaves ==
    Terminated =>
        /\ Cardinality(Positions("savefig")) = 1
        /\ \A i \in Positions("savefig") : log[i].fname = "nazca_plate_map.png"

(* C4: a failed download is caught: the catalog becomes empty, the loop
   makes no iteration and no row, and the run goes on through the processing
   stage; an answered request leaves exactly the returned catalog. *)
C4_DownloadFailureCaught ==
    pc # "download" =>
        /\ iris.status = "ok" => catalog = iris.events
        /\ iris.status # "ok" =>
              /\ catalog = << >>
              /\ idx = 0
              /\ data = << >>
              /\ ~Executed("event")
              /\ pc # "loop" => Executed("DataFrame") /\ eq_df.rows = << >>
              /\ pc \notin {"loop", "load_volcanoes"} => Executed("load_sample_data")

C4_Witness ==
    /\ iris.status # "ok"
    /\ pc = "filter"
    /\ Executed("DataFrame")

(* C5: the rows are exactly the complete events, one row per event in
   catalog order, each carrying the usable origin's longitude, latitude,
   depth in km and date and the usable magnitude's value. *)
C5_RowsAreCompleteEvents ==
    /\ pc = "loop" => RowsMatch(data, SubSeq(catalog, 1, idx))
    /\ AfterLoop =>
          /\ RowsMatch(data, catalog)
          /\ eq_df.rows = data
          /\ Len(data) <= Len(catalog)

C5_Witness ==
    /\ pc = "load_volcanoes"
    /\ Len(catalog) = 3
    /\ Len(data) = 2
    /\ \E i \in 1..3 : catalog[i].preferred_origin_id = 2 /\ Complete(catalog[i])

(* C6: an incomplete event is skipped atomically: it adds no row, the rows
   gathered so far stay as they are, every row has all five fields, and the
   loop goes on to the next event until the catalog is exhausted. *)
C6_Step ==
    (pc = "loop" /\ idx < Len(catalog)) =>
        /\ pc' = "loop"
        /\ idx' = idx + 1
        /\ catalog' = catalog
        /\ IsPrefix(data, data')
        /\ Len(data') <= Len(data) + 1
        /\ ~Complete(catalog[idx + 1]) => data' = data
        /\ \A i \in 1..Len(data') : DOMAIN data'[i] = RowKeys

C6_LoopExhausted ==
    AfterLoop =>
        /\ idx = Len(catalog)
        /\ Len(data) = Cardinality({i \in 1..Len(catalog) : Complete(catalog[i])})

C6_SkipIsAtomic == [][C6_Step]_vars /\ []C6_LoopExhausted

C6_Witness ==
    /\ pc = "loop"
    /\ idx = 3
    /\ Complete(catalog[1])
    /\ ~Complete(catalog[2])
    /\ Complete(catalog[3])
    /\ Len(data) = 2

(* C7: the filtered table is exactly the volcanoes of the loaded table with
   -110 <= longitude <= -70 and -60 <= latitude <= 10, in the same order. *)
C7_RegionFilter ==
    /\ pc = "filter" => volcano_df = sample
    /\ AfterFilter => volcano_df = SelectSeq(sample, InsideRegion)

C7_Witness ==
    /\ pc = "figure"
    /\ Len(sample) = 3
    /\ Len(volcano_df) = 2
    /\ \E i \in 1..2 : volcano_df[i].longitude = -11000
    /\ \E i \in 1..2 : volcano_df[i].latitude = 1000

(* C8: the map layers are emitted in the fixed order, the palette is made
   before the layers that use it, the legend follows the three labelled
   layers, and the file is saved before the figure is shown. *)
C8_LayerOrder ==
    /\ IsPrefix(SelectSeq(Ops, IsLayer), LayerOrder)
    /\ \A j \in Positions("plot_earthquakes") \cup Positions("colorbar") :
          \E i \in Positions("makecpt") : i < j
    /\ \A j \in Positions("legend") :
          \A op \in {"plot_volcanoes", "plot_earthquakes", "plot_famous"} :
              \E i \in Positions(op) : i < j
    /\ \A j \in Positions("show") : \E i \in Positions("savefig") : i < j

C8_Witness ==
    /\ pc = "done"
    /\ SelectSeq(Ops, IsLayer) = LayerOrder

(* C9: one region serves the request, the filter and the terrain grid; the
   request asks for magnitude >= 5.5 from 2010-01-01 to 2025-01-01; and the
   1960 Valdivia marker, inside the region, is plotted in every run that
   reaches plotting. *)
C9_OneRegion ==
    /\ \A i \in Positions("get_events") :
          /\ log[i].minlongitude = -11000 /\ log[i].maxlongitude = -7000
          /\ log[i].minlatitude = -6000 /\ log[i].maxlatitude = 1000
          /\ log[i].minmagnitude = 55
          /\ log[i].starttime.date = "2010-01-01"
          /\ log[i].endtime.date = "2025-01-01"
    /\ \A i \in Positions("load_earth_relief") :
          log[i].region = <<-11000, -7000, -6000, 1000>>
    /\ AfterFilter => volcano_df = SelectSeq(sample, InsideRegion)
    /\ InsideRegion([longitude |-> FAMOUS_EQ.lon, latitude |-> FAMOUS_EQ.lat])
    /\ (Terminated /\ Executed("Figure")) =>
          \E i \in Positions("plot_famous") :
              log[i].x = -7305 /\ log[i].y = -3829

====
